---- MODULE Spec2Model ----
(***************************************************************************)
(* A model of substr (src/src/lib.rs): the Builder that packs a vector of  *)
(* strings into one storage string plus a table of (offset, length) spans, *)
(* and the read-only accessors of the resulting SubStr.                    *)
(*                                                                         *)
(* Strings are sequences of bytes (UTF-8).  Rust indices and byte offsets  *)
(* are 0-based and are kept 0-based here; TLA+ sequences are 1-based, so   *)
(* the element with id k of a Vec v is v[k + 1].  Option<T> is modelled by *)
(* None == <<>> and Some((a, b)) == <<a, b>>.                              *)
(***************************************************************************)
EXTENDS Integers, Sequences, FiniteSets, TLC

\* ------------------------------------------------------------------ bounds
\* The most strings in an input vector.
MaxN == 3
\* The most bytes in an input vector (sum of the byte lengths of its strings).
MaxBytes == 7
\* The same two bounds for the inputs whose SubStr the accessors are called on,
\* and the largest `len` argument (other than usize::MAX) of before()/after().
MaxAccessN == 2
MaxAccessBytes == 4
MaxCtx == 2
\* The most calls of build_only, verify and build on one Builder.
MaxCalls == 3

\* u8::MAX, the length ceiling of the constructors.
U8MAX == 255

\* usize::MAX does not fit an integer of the model checker; it is the token
\* below, and the arithmetic of before()/after() treats it case by case.
USIZE_MAX == 0 - 1

\* The characters the input strings are made of: 'a' (one byte) and
\* U+00E9 (two bytes, 0xC3 0xA9).
Chars == {<<97>>, <<195, 169>>}

\* All valid UTF-8 strings over Chars that are exactly l bytes long.
RECURSIVE StrOfLen(_)
StrOfLen(l) ==
    IF l = 0 THEN {<<>>}
    ELSE UNION {{s \o c : s \in StrOfLen(l - Len(c))} : c \in {d \in Chars : Len(d) <= l}}

\* All vectors of exactly n strings that are t bytes long in total.
RECURSIVE VecsOf(_, _)
VecsOf(n, t) ==
    IF n = 0 THEN (IF t = 0 THEN {<<>>} ELSE {})
    ELSE UNION {{Append(v, w) : v \in VecsOf(n - 1, t - l), w \in StrOfLen(l)} : l \in 0..t}

\* The inputs of the constructors: the empty vector included.
Inputs == UNION {VecsOf(n, t) : n \in 0..MaxN, t \in 0..MaxBytes}
AccessInputs == UNION {VecsOf(n, t) : n \in 0..MaxAccessN, t \in 0..MaxAccessBytes}

LenArgs == (0..MaxCtx) \cup {USIZE_MAX}

\* ------------------------------------------------------------ Option, ids
None == <<>>
Some(a, b) == <<a, b>>
IsSome(o) == o # None
IsNone(o) == o = None

\* The element with (0-based) id k of the Vec v.
At(v, k) == v[k + 1]

\* `x as u8`
AsU8(x) == x % (U8MAX + 1)

Min(S) == CHOOSE x \in S : \A y \in S : x <= y
Max(S) == CHOOSE x \in S : \A y \in S : x >= y

\* ------------------------------------------------------------ str helpers
\* u8::is_utf8_char_boundary: `(b as i8) >= -0x40`, every byte but 0x80..0xBF.
IsUtf8CharBoundary(b) == b < 128 \/ b >= 192

\* str::is_char_boundary(index)
IsCharBoundary(s, index) ==
    IF index = 0 THEN TRUE
    ELSE IF index >= Len(s) THEN index = Len(s)
    ELSE IsUtf8CharBoundary(s[index + 1])

\* The bytes [a, b) of s.
Bytes(s, a, b) == SubSeq(s, a + 1, b)

\* `&s[a..b]`: panics unless a <= b <= len and both are character boundaries.
\* A result is a pair <<tag, value>>.
StrIndex(s, a, b) ==
    IF a <= b /\ b <= Len(s) /\ IsCharBoundary(s, a) /\ IsCharBoundary(s, b)
    THEN <<"Some", Bytes(s, a, b)>>
    ELSE <<"panic", <<>>>>

\* str::char_indices: the byte offsets at which the characters of s start,
\* ascending.
RECURSIVE CharIndicesFrom(_, _)
CharIndicesFrom(s, k) ==
    IF k >= Len(s) THEN <<>>
    ELSE (IF IsUtf8CharBoundary(s[k + 1]) THEN <<k>> ELSE <<>>) \o CharIndicesFrom(s, k + 1)
CharIndices(s) == CharIndicesFrom(s, 0)

\* split_after_char(s, after): None, or <<begin, end>> split in front of the
\* character number `after`.
SplitAfterChar(s, after) ==
    IF after = 0 THEN None
    ELSE LET ci == CharIndices(s)
         IN  IF after < Len(ci)
             THEN <<Bytes(s, 0, ci[after + 1]), Bytes(s, ci[after + 1], Len(s))>>
             ELSE None

\* A variant that strips nothing.
StripPrefix_whole(s, prefix) == s

\* str::strip_prefix(prefix).unwrap(), called with a prefix of s.
StripPrefix(s, prefix) == Bytes(s, Len(prefix), Len(s))

RECURSIVE SumLen(_)
SumLen(v) == IF v = <<>> THEN 0 ELSE Len(Head(v)) + SumLen(Tail(v))


\* ------------------------------------------------------------------ state
VARIABLES
    input,          \* the Vec<String> handed to the constructor
    vec,            \* Builder.vec
    contained_in,   \* Builder.contained_in : Vec<Option<(u32, u8)>>
    index_string,   \* Builder.index_string
    spans,          \* Builder.spans : Vec<Option<(u32, u8)>>
    build,          \* Builder.build
    pc,             \* where the program is: no Builder yet, between two calls,
                    \* inside one of the four build phases, or holding the SubStr
    caller,         \* the method that entered build_only: it resumes after phase 4
    i,              \* the loop variable `i` of the running phase
    index,          \* find_partial_substrings: `index`, the end of the chain
    position,       \* find_partial_substrings: `position`, the write cursor
    substr,         \* the SubStr returned by build(): [string, spans]
    ret,            \* the call that returned last, with its arguments and result
                    \* (NoCall while a call is running)
    calls           \* the number of calls of build_only, verify and build so far

vars == <<input, vec, contained_in, index_string, spans, build, pc, caller,
          i, index, position, substr, ret, calls>>

builder == <<vec, contained_in, index_string, spans, build>>
locals == <<i, index, position>>

\* A call and its result: tag is "Ok(..)", "Err(..)", "Some", "None" or
\* "panic"; val is the &str of a "Some".
Ret(op, idx, len, tag, val) == [op |-> op, index |-> idx, len |-> len, tag |-> tag, val |-> val]

NoCall == Ret("-", 0, 0, "-", <<>>)

\* SubStr::default()
EmptySubStr == [string |-> <<>>, spans |-> <<>>]

InitFrom(inputs) ==
    /\ input \in inputs
    /\ vec = <<>>
    /\ contained_in = <<>>
    /\ index_string = <<>>
    /\ spans = <<>>
    /\ build = FALSE
    /\ pc = "new"
    /\ caller = "-"
    /\ i = 0
    /\ index = 0
    /\ position = 0
    /\ substr = EmptySubStr
    /\ ret = NoCall
    /\ calls = 0

Init == InitFrom(Inputs)

\* ----------------------------------------------------------- constructors
\* `Ok(Self { contained_in: vec![None; n], spans: vec![None; n],
\*            index_string: String::new(), silent: true, build: false, vec })`
NewBuilder(op, value) ==
    /\ vec' = value
    /\ contained_in' = [k \in 1..Len(value) |-> None]
    /\ spans' = [k \in 1..Len(value) |-> None]
    /\ index_string' = <<>>
    /\ build' = FALSE
    /\ pc' = "idle"
    /\ ret' = Ret("new", 0, 0, "Ok(Builder)", <<>>)

\* A constructor that does not return a Builder.
NoBuilder(op, tag) ==
    /\ pc' = "failed"
    /\ ret' = Ret(op, 0, 0, tag, <<>>)
    /\ UNCHANGED builder

\* `value.iter().map(|s| s.len()).max()` of a non-empty vector
MaxLenOf(value) == Max({Len(value[k]) : k \in 1..Len(value)})

\* impl TryFrom<Vec<String>> for Builder: `.max().unwrap()` panics on an
\* empty vector.
TryFrom ==
    /\ pc = "new"
    /\ IF input = <<>>
       THEN NoBuilder("try_from", "panic")
       ELSE IF MaxLenOf(input) > U8MAX
            THEN NoBuilder("try_from", "Err(StringTooLong)")
            ELSE NewBuilder("try_from", input)
    /\ UNCHANGED <<input, caller, locals, substr, calls>>

\* Builder::from_iter: `.max().ok_or(Error::NoMaxStringLen)?`
FromIter ==
    /\ pc = "new"
    /\ IF input = <<>>
       THEN NoBuilder("from_iter", "Err(NoMaxStringLen)")
       ELSE IF MaxLenOf(input) > U8MAX
            THEN NoBuilder("from_iter", "Err(StringTooLong)")
            ELSE NewBuilder("from_iter", input)
    /\ UNCHANGED <<input, caller, locals, substr, calls>>

\* ------------------------------------------------- phase 1: find_substrings
\* Variants of the guard: without `index != i`, without `.is_none()`, and
\* never true.
ShouldLink_self(ci, idx, text) == IsNone(At(ci, idx))
ShouldLink_overwrite(ci, idx, text) == idx # text
ShouldLink_never(ci, idx, text) == FALSE

\* The guard of the assignment in find_substrings.
ShouldLink(ci, idx, text) == idx # text /\ IsNone(At(ci, idx))

\* AhoCorasick::find_overlapping_iter(w) over the patterns v reports every
\* occurrence of every pattern in w as the scan reaches its end, so in the order
\* of the end offsets.  Match number k (of those tried) is the pattern k % n
\* ending at k \div n; the order among the patterns that end at one offset does
\* not matter, since two patterns write two different entries.
RECURSIVE ScanMatches(_, _, _, _)
ScanMatches(v, ci, text, k) ==
    LET n == Len(v)
        w == At(v, text)
        e == k \div n
        pat == k % n
        start == e - Len(At(v, pat))
    IN  IF e > Len(w) THEN ci
        ELSE IF start >= 0 /\ Bytes(w, start, e) = At(v, pat) /\ ShouldLink(ci, pat, text)
             THEN ScanMatches(v, [ci EXCEPT ![pat + 1] = Some(text, AsU8(start))], text, k + 1)
             ELSE ScanMatches(v, ci, text, k + 1)

\* One iteration of `for (i, w) in self.vec.iter().enumerate()`; the phase ends
\* when the vector is exhausted, and phase 2 starts with position = 0.
FindSubstrings ==
    /\ pc = "find_substrings"
    /\ IF i < Len(vec)
       THEN /\ contained_in' = ScanMatches(vec, contained_in, i, 0)
            /\ i' = i + 1
            /\ UNCHANGED <<pc, position>>
       ELSE /\ pc' = "find_partial_substrings"
            /\ i' = 0
            /\ position' = 0
            /\ UNCHANGED contained_in
    /\ UNCHANGED <<input, vec, index_string, spans, build, caller, index, substr, ret, calls>>

\* ---------------------------------------- phase 2: find_partial_substrings
\* `beginnings.get(key)`: the ids pushed under `key`, in the order of the
\* pushes.  The map is filled from the strings without a containment link, in
\* the order of their ids; a string pushes its id under each of its prefixes
\* split_after_char yields, once, so the ids of a key are ascending.
HasBeginning(s, key) ==
    \E split_point \in 1..(Len(s) - 1) :
        /\ SplitAfterChar(s, split_point) # None
        /\ SplitAfterChar(s, split_point)[1] = key

RECURSIVE BeginningsFrom(_, _, _, _)
BeginningsFrom(v, ci, key, k) ==
    IF k >= Len(v) THEN <<>>
    ELSE (IF IsNone(At(ci, k)) /\ HasBeginning(At(v, k), key) THEN <<k>> ELSE <<>>)
         \o BeginningsFrom(v, ci, key, k + 1)
Beginnings(v, ci, key) == BeginningsFrom(v, ci, key, 0)

\* `for next_index in indices { if self.spans[next_index].is_none() { return .. } }`
RECURSIVE FirstUnplaced(_, _)
FirstUnplaced(indices, sp) ==
    IF indices = <<>> THEN None
    ELSE IF IsNone(At(sp, Head(indices))) THEN <<Head(indices)>>
    ELSE FirstUnplaced(Tail(indices), sp)


\* NextStr { index, position, tail }, as Some(..) == <<[..]>>.
NextStr(v, idx, pos, end) ==
    <<[index |-> idx, position |-> pos - Len(end), tail |-> StripPrefix(At(v, idx), end)]>>

\* The body of find_next_string: `for split_point in 1..self.vec[index].len()`
\* from split_point on.  The suffix `end` shrinks as split_point grows.
RECURSIVE ScanSplitPoints(_, _, _, _, _, _)
ScanSplitPoints(v, ci, sp, idx, pos, split_point) ==
    IF split_point >= Len(At(v, idx)) THEN None
    ELSE LET sac == SplitAfterChar(At(v, idx), split_point)
             found == IF sac = None THEN None ELSE FirstUnplaced(Beginnings(v, ci, sac[2]), sp)
         IN  IF found # None
             THEN NextStr(v, found[1], pos, sac[2])
             ELSE ScanSplitPoints(v, ci, sp, idx, pos, split_point + 1)

\* A variant of the scan that starts at the last split point and goes down, so
\* that the suffix `end` grows.
RECURSIVE ScanSplitPointsDown(_, _, _, _, _, _)
ScanSplitPointsDown(v, ci, sp, idx, pos, split_point) ==
    IF split_point < 1 THEN None
    ELSE LET sac == SplitAfterChar(At(v, idx), split_point)
             found == IF sac = None THEN None ELSE FirstUnplaced(Beginnings(v, ci, sac[2]), sp)
         IN  IF found # None
             THEN NextStr(v, found[1], pos, sac[2])
             ELSE ScanSplitPointsDown(v, ci, sp, idx, pos, split_point - 1)
FindNextString_ascending(v, ci, sp, idx, pos) ==
    ScanSplitPointsDown(v, ci, sp, idx, pos, Len(At(v, idx)) - 1)

\* Builder::find_next_string(index, position, &beginnings)
FindNextString(v, ci, sp, idx, pos) == ScanSplitPoints(v, ci, sp, idx, pos, 1)

\* One iteration of the outer loop of find_partial_substrings, up to the
\* `while let`: strings with a containment link are filtered out, placed ones
\* are skipped, any other is appended at the cursor and starts a chain.
FindPartialSubstrings ==
    /\ pc = "find_partial_substrings"
    /\ IF i >= Len(vec)
       THEN /\ pc' = "join_loose_strings"
            /\ UNCHANGED <<i, index, position, index_string, spans>>
       ELSE IF IsSome(At(contained_in, i)) \/ IsSome(At(spans, i))
       THEN /\ i' = i + 1
            /\ UNCHANGED <<pc, index, position, index_string, spans>>
       ELSE /\ index' = i
            /\ spans' = [spans EXCEPT ![i + 1] = Some(position, AsU8(Len(At(vec, i))))]
            /\ index_string' = index_string \o At(vec, i)
            /\ position' = position + Len(At(vec, i))
            /\ pc' = "find_next_string"
            /\ UNCHANGED i
    /\ UNCHANGED <<input, vec, contained_in, build, caller, substr, ret, calls>>

\* One iteration of `while let Some(next) = self.find_next_string(..)`; on
\* None the outer loop goes on with the next string.
ExtendChain ==
    /\ pc = "find_next_string"
    /\ LET next == FindNextString(vec, contained_in, spans, index, position)
       IN  IF next # None
           THEN /\ spans' = [spans EXCEPT ![next[1].index + 1] =
                                Some(next[1].position, AsU8(Len(At(vec, next[1].index))))]
                /\ index_string' = index_string \o next[1].tail
                /\ index' = next[1].index
                /\ position' = next[1].position + Len(At(vec, next[1].index))
                /\ UNCHANGED <<pc, i>>
           ELSE /\ pc' = "find_partial_substrings"
                /\ i' = i + 1
                /\ UNCHANGED <<spans, index_string, index, position>>
    /\ UNCHANGED <<input, vec, contained_in, build, caller, substr, ret, calls>>

\* ---------------------------------------------- phase 3: join_loose_strings
\* The loop of join_loose_strings from id k on, on <<spans, index_string>>.
RECURSIVE LooseFrom(_, _, _, _, _)
LooseFrom(v, ci, sp, str, k) ==
    IF k >= Len(v) THEN <<sp, str>>
    ELSE IF IsNone(At(ci, k)) /\ IsNone(At(sp, k))
         THEN LooseFrom(v, ci, [sp EXCEPT ![k + 1] = Some(Len(str), AsU8(Len(At(v, k))))],
                        str \o At(v, k), k + 1)
         ELSE LooseFrom(v, ci, sp, str, k + 1)

JoinLooseStrings ==
    /\ pc = "join_loose_strings"
    /\ LET r == LooseFrom(vec, contained_in, spans, index_string, 0)
       IN  /\ spans' = r[1]
           /\ index_string' = r[2]
    /\ pc' = "join_substrings"
    /\ UNCHANGED <<input, vec, contained_in, build, caller, locals, substr, ret, calls>>

\* ------------------------------------------------- phase 4: join_substrings
\* `self.spans.iter().filter(|s| s.is_none()).count()`
CountNone(sp) == Cardinality({k \in 1..Len(sp) : IsNone(sp[k])})

\* The span a linked id gets from the span of its container.
Resolved(v, k, container_pos, start) == Some(container_pos + start, AsU8(Len(At(v, k))))

\* One pass of the `for` loop of join_substrings from id k on: the ids with a
\* link, ascending; a span written earlier in the pass is seen later in it.
RECURSIVE ResolveFrom(_, _, _, _)
ResolveFrom(v, ci, sp, k) ==
    IF k >= Len(v) THEN sp
    ELSE IF IsSome(At(ci, k)) /\ IsNone(At(sp, k)) /\ IsSome(At(sp, At(ci, k)[1]))
         THEN ResolveFrom(v, ci,
                  [sp EXCEPT ![k + 1] = Resolved(v, k, At(sp, At(ci, k)[1])[1], At(ci, k)[2])],
                  k + 1)
         ELSE ResolveFrom(v, ci, sp, k + 1)

\* --------------------------------------------------- verify, build, calls
\* The loop of verify from id k on: the tag of its result.
RECURSIVE VerifyFrom(_, _, _, _)
VerifyFrom(v, sp, str, k) ==
    IF k >= Len(v) THEN "Ok(true)"
    ELSE IF IsSome(At(sp, k))
         THEN LET b == At(sp, k)[1]
                  e == At(sp, k)[2]
                  slice == StrIndex(str, b, b + e)
              IN  IF slice[1] = "panic" THEN "panic"
                  ELSE IF At(v, k) # slice[2] THEN "Ok(false)"
                  ELSE VerifyFrom(v, sp, str, k + 1)
         ELSE VerifyFrom(v, sp, str, k + 1)

\* A variant that never sees the flag.
AlreadyBuilt_never == FALSE

\* `if self.build` in build_only, `if !self.build` in build and verify.
AlreadyBuilt == build

\* What a method does once build_only is through (or was not needed).
Return(op) ==
    CASE op = "build_only" ->
            /\ pc' = "idle"
            /\ ret' = Ret(op, 0, 0, "Ok(())", <<>>)
            /\ UNCHANGED substr
      [] op = "verify" ->
            /\ pc' = "idle"
            /\ ret' = Ret(op, 0, 0, VerifyFrom(vec, spans, index_string, 0), <<>>)
            /\ UNCHANGED substr
      [] op = "build" ->
            IF \E k \in 1..Len(spans) : IsNone(spans[k])
            THEN /\ pc' = "failed"
                 /\ ret' = Ret(op, 0, 0, "panic", <<>>)
                 /\ UNCHANGED substr
            ELSE /\ pc' = "frozen"
                 /\ substr' = [string |-> index_string, spans |-> spans]
                 /\ ret' = Ret(op, 0, 0, "Ok(SubStr)", <<>>)

\* A call of build_only, verify or build on the Builder: it returns at once
\* when the Builder is built, and enters phase 1 otherwise.
Call(op) ==
    /\ pc = "idle"
    /\ calls < MaxCalls
    /\ calls' = calls + 1
    /\ IF AlreadyBuilt
       THEN /\ Return(op)
            /\ UNCHANGED <<caller, i>>
       ELSE /\ pc' = "find_substrings"
            /\ caller' = op
            /\ i' = 0
            /\ ret' = NoCall
            /\ UNCHANGED substr
    /\ UNCHANGED <<input, builder, index, position>>

BuildOnly == Call("build_only")
Verify == Call("verify")
Build == Call("build")

\* One evaluation of the `while` condition of join_substrings, with the pass
\* of the `for` loop it guards; when no span is None build_only sets `build`
\* and returns to its caller.
JoinSubstrings ==
    /\ pc = "join_substrings"
    /\ IF CountNone(spans) > 0
       THEN /\ spans' = ResolveFrom(vec, contained_in, spans, 0)
            /\ UNCHANGED <<build, pc, caller, locals, substr, ret>>
       ELSE /\ build' = TRUE
            /\ Return(caller)
            /\ caller' = "-"
            /\ i' = 0
            /\ index' = 0
            /\ position' = 0
            /\ UNCHANGED spans
    /\ UNCHANGED <<input, vec, contained_in, index_string, calls>>


\* ------------------------------------------------------- SubStr accessors
\* SubStr::len and SubStr::storage_len
SubStrLen(s) == Len(s.spans)
StorageLen(s) == Len(s.string)

\* `self.spans[index]`: panics when index is out of bounds.
SpanIndex(s, idx) == IF idx < Len(s.spans) THEN <<"Some", At(s.spans, idx)>> ELSE <<"panic", <<>>>>

\* SubStr::get(index): `(index < self.len()).then_some(&self.string[..])`.
\* The argument of then_some is evaluated before then_some is called.
Get(s, idx) ==
    LET span == SpanIndex(s, idx)
        arg == IF span[1] = "panic" THEN span
               ELSE StrIndex(s.string, span[2][1], span[2][1] + span[2][2])
    IN  IF arg[1] = "panic" THEN arg
        ELSE IF idx < SubStrLen(s) THEN arg
        ELSE <<"None", <<>>>>

\* `a < len` and `a <= b` on usize, where len or b may be usize::MAX and a is
\* an offset into the storage string.
LtUsize(a, len) == len = USIZE_MAX \/ a < len
LeUsize(a, b) == b = USIZE_MAX \/ a <= b

\* `a + len` on usize, for an offset a: <<"ok", sum>>, or <<"overflow", w>> with
\* w the sum modulo 2^N (a + usize::MAX wraps to a - 1).
AddUsize(a, len) ==
    IF len = USIZE_MAX
    THEN (IF a = 0 THEN <<"ok", USIZE_MAX>> ELSE <<"overflow", a - 1>>)
    ELSE <<"ok", a + len>>

\* `while !self.string.is_char_boundary(start) { start -= 1; }`
RECURSIVE WalkBack(_, _)
WalkBack(str, start) == IF IsCharBoundary(str, start) THEN start ELSE WalkBack(str, start - 1)

\* `while !self.string.is_char_boundary(end) { end += 1; }`
RECURSIVE WalkForward(_, _)
WalkForward(str, end) == IF IsCharBoundary(str, end) THEN end ELSE WalkForward(str, end + 1)

\* SubStr::before(index, len)
Before(s, idx, len) ==
    IF idx < Len(s.spans)
    THEN LET pos == At(s.spans, idx)[1]
             start == IF LtUsize(pos, len) THEN 0 ELSE pos - len
         IN  StrIndex(s.string, WalkBack(s.string, start), pos)
    ELSE <<"None", <<>>>>

\* SubStr::after(index, len).  `position + length + len` overflows for a len
\* near usize::MAX: a build with overflow checks panics there, a build without
\* them goes on with the wrapped sum.
After(s, idx, len, overflow_checks) ==
    IF idx < Len(s.spans)
    THEN LET pos == At(s.spans, idx)[1]
             length == At(s.spans, idx)[2]
             sum == AddUsize(pos + length, len)
             end == IF LeUsize(Len(s.string), sum[2]) THEN Len(s.string) ELSE sum[2]
         IN  IF sum[1] = "overflow" /\ overflow_checks
             THEN <<"panic", <<>>>>
             ELSE StrIndex(s.string, pos + length, WalkForward(s.string, end))
    ELSE <<"None", <<>>>>

frozen == <<input, builder, pc, caller, locals, substr, calls>>

CallGet ==
    /\ pc = "frozen"
    /\ \E idx \in 0..MaxAccessN :
          LET r == Get(substr, idx) IN ret' = Ret("get", idx, 0, r[1], r[2])
    /\ UNCHANGED frozen

CallBefore ==
    /\ pc = "frozen"
    /\ \E idx \in 0..MaxAccessN, len \in LenArgs :
          LET r == Before(substr, idx, len) IN ret' = Ret("before", idx, len, r[1], r[2])
    /\ UNCHANGED frozen

CallAfter ==
    /\ pc = "frozen"
    /\ \E idx \in 0..MaxAccessN, len \in LenArgs, overflow_checks \in BOOLEAN :
          LET r == After(substr, idx, len, overflow_checks)
          IN  ret' = Ret("after", idx, len, r[1], r[2])
    /\ UNCHANGED frozen

\* ---------------------------------------------------------- specification
Phases == {"find_substrings", "find_partial_substrings", "find_next_string",
           "join_loose_strings", "join_substrings"}

\* A step of build_only: the program is single-threaded, and a call that has
\* entered the phases runs them to the end (or for ever).
Step == FindSubstrings \/ FindPartialSubstrings \/ ExtendChain \/ JoinLooseStrings \/ JoinSubstrings

Next ==
    \/ TryFrom
    \/ FromIter
    \/ BuildOnly
    \/ Verify
    \/ Build
    \/ FindSubstrings
    \/ FindPartialSubstrings
    \/ ExtendChain
    \/ JoinLooseStrings
    \/ JoinSubstrings

Spec == Init /\ [][Next]_vars

\* The Builder on the smaller inputs, and the accessors on the SubStr it built.
AccessInit == InitFrom(AccessInputs)

AccessNext ==
    \/ Next
    \/ CallGet
    \/ CallBefore
    \/ CallAfter

AccessSpec == AccessInit /\ [][AccessNext]_vars

\* A running call is not suspended: the steps of build_only are taken as long
\* as one is possible.
FairSpec == Spec /\ WF_vars(Step)


\* ------------------------------------------------------------- properties
\* The ids of a vector.
Ids(v) == 0..(Len(v) - 1)

\* The offsets at which the string p occurs verbatim in the string t.
Occurrences(t, p) == {o \in 0..(Len(t) - Len(p)) : Bytes(t, o, o + Len(p)) = p}
Contains(t, p) == Occurrences(t, p) # {}

\* The ids other than p whose string contains the string of p.
Containers(v, p) == {t \in Ids(v) \ {p} : Contains(At(v, t), At(v, p))}

\* The lengths k of the proper non-empty suffixes of s that are proper
\* prefixes of t.
Overlaps(s, t) ==
    {k \in 1..(Len(s) - 1) : k < Len(t) /\ Bytes(s, Len(s) - k, Len(s)) = Bytes(t, 0, k)}

Distinct(v) == \A a \in Ids(v), b \in Ids(v) : a # b => At(v, a) # At(v, b)

\* find_substrings is through.
PhaseOneDone ==
    \/ pc \in {"find_partial_substrings", "find_next_string", "join_loose_strings",
               "join_substrings"}
    \/ build

\* The SubStr is returned and get(k) is the k-th input string, for every id.
RoundTrip ==
    \A k \in Ids(input) : Get(substr, k) = <<"Some", At(input, k)>>

\* C1: for every non-empty input (duplicates and empty strings included) build
\* terminates - every pass of the loop of join_substrings that still has an
\* unresolved span resolves one -, get(i) of the SubStr it returns is the i-th
\* input string, and verify returns Ok(true).
C1_RoundTrip ==
    /\ (pc = "join_substrings" /\ CountNone(spans) > 0)
          => ResolveFrom(vec, contained_in, spans, 0) # spans
    /\ pc = "frozen" => RoundTrip
    /\ ret.op = "verify" => ret.tag = "Ok(true)"

\* C3: a constructor called with an empty vector returns
\* Err(NoMaxStringLen) and no Builder, be it try_from or from_iter.
C3_EmptyInput ==
    input = <<>> =>
        /\ pc \in {"new", "failed"}
        /\ pc = "failed" => ret.tag = "Err(NoMaxStringLen)"

\* Every byte of the string str lies in the span of some id.
Covered(str, sp) ==
    \A b \in 0..(Len(str) - 1) :
        \E k \in 1..Len(sp) : IsSome(sp[k]) /\ sp[k][1] <= b /\ b < sp[k][1] + sp[k][2]

\* C4: once the build is through, the storage string is no longer than the
\* input strings together, and each of its bytes lies in the span of some id;
\* so it is for the SubStr that build returns.
C4_NoWaste ==
    /\ build => /\ Len(index_string) <= SumLen(vec)
                /\ Covered(index_string, spans)
    /\ pc = "frozen" => /\ StorageLen(substr) <= SumLen(input)
                        /\ Covered(substr.string, substr.spans)

\* A SubStr of three strings, one of them stored inside another and one
\* chained to another, shorter than its input.
C4_Witness ==
    /\ pc = "frozen"
    /\ Len(input) = 3
    /\ \E k \in Ids(vec) : IsSome(At(contained_in, k))
    /\ \E a \in Ids(vec), b \in Ids(vec) :
          /\ IsNone(At(contained_in, a)) /\ IsNone(At(contained_in, b))
          /\ At(substr.spans, a)[1] < At(substr.spans, b)[1]
          /\ At(substr.spans, b)[1] < At(substr.spans, a)[1] + At(substr.spans, a)[2]
    /\ StorageLen(substr) < SumLen(input)

\* The lowest id whose string no other input string contains, as a set.
FirstUncontained(v) ==
    LET U == {k \in Ids(v) : Containers(v, k) = {}}
    IN  IF U = {} THEN {} ELSE {Min(U)}

C7_BuildOnce ==
    [][build =>
          /\ build'
          /\ pc' \notin Phases
          /\ index_string' = index_string
          /\ spans' = spans
          /\ contained_in' = contained_in
          /\ pc' = "frozen" => substr' = [string |-> index_string, spans |-> spans]]_vars

\* build returned the SubStr as the third call, after build_only and verify.
C7_Witness ==
    /\ pc = "frozen"
    /\ calls = 3
    /\ Len(substr.spans) = 3
    /\ StorageLen(substr) < SumLen(input)

\* The overlaps the chain can go on with from the string `index`: the lengths
\* of its proper non-empty suffixes that are proper prefixes of a string
\* without a link and without a span.
MatchingOverlaps ==
    UNION {Overlaps(At(vec, index), At(vec, j)) :
              j \in {k \in Ids(vec) : IsNone(At(contained_in, k)) /\ IsNone(At(spans, k))}}

\* The chain has just been extended by the string `index`, over `overlap` bytes.
Extended == pc = "find_next_string" /\ pc' = "find_next_string" /\ spans' # spans
ChosenOverlap == position - At(spans', index')[1]

\* C8 as stated: the chain goes on with the shortest matching overlap.
C8_ShortestOverlap ==
    [][Extended => ChosenOverlap = Min(MatchingOverlaps)]_vars

\* C8 amended: find_next_string scans the proper suffixes of the current
\* string from the longest to the shortest, so the chain goes on with the
\* longest matching overlap, and with the lowest id among the strings that
\* start with it; it ends when there is no matching overlap.
C8_LongestOverlap ==
    [][pc = "find_next_string" =>
          IF MatchingOverlaps = {}
          THEN pc' = "find_partial_substrings" /\ spans' = spans
          ELSE /\ Extended
               /\ ChosenOverlap = Max(MatchingOverlaps)
               /\ index' = Min({j \in Ids(vec) :
                                   /\ IsNone(At(contained_in, j)) /\ IsNone(At(spans, j))
                                   /\ Max(MatchingOverlaps) \in Overlaps(At(vec, index), At(vec, j))})
               /\ index_string' = Bytes(index_string, 0, position - ChosenOverlap)
                                      \o At(vec, index')]_vars

\* The string at the end of the chain was placed over an overlap of two bytes
\* or more with its predecessor, where a shorter overlap matched as well.
C8_Witness ==
    /\ pc = "find_next_string"
    /\ \E j \in Ids(vec) :
          /\ j # index
          /\ IsSome(At(spans, j))
          /\ IsNone(At(contained_in, j))
          /\ LET k == At(spans, j)[1] + At(spans, j)[2] - At(spans, index)[1]
             IN  /\ k >= 2
                 /\ k \in Overlaps(At(vec, j), At(vec, index))
                 /\ \E m \in Overlaps(At(vec, j), At(vec, index)) : m < k

\* The links have no cycle: following them from any id ends at an id without a
\* link in fewer steps than there are ids.
RECURSIVE EndsWithin(_, _, _)
EndsWithin(ci, k, n) ==
    IF IsNone(At(ci, k)) THEN TRUE
    ELSE IF n = 0 THEN FALSE
    ELSE EndsWithin(ci, At(ci, k)[1], n - 1)
Acyclic(ci) == \A k \in 0..(Len(ci) - 1) : EndsWithin(ci, k, Len(ci) - 1)

\* C9: when the input strings are pairwise distinct, the links have no cycle,
\* every pass of the loop of join_substrings that still has an unresolved span
\* resolves one - so the loop terminates -, and once it is through every id
\* has a span, a linked id the span (span(container).offset + link.offset,
\* its own byte length).
C9_Resolver ==
    Distinct(input) =>
        /\ Acyclic(contained_in)
        /\ (pc = "join_substrings" /\ CountNone(spans) > 0)
              => CountNone(ResolveFrom(vec, contained_in, spans, 0)) < CountNone(spans)
        /\ build =>
              \A k \in Ids(vec) :
                  /\ IsSome(At(spans, k))
                  /\ IsSome(At(contained_in, k)) =>
                        At(spans, k) = <<At(spans, At(contained_in, k)[1])[1] + At(contained_in, k)[2],
                                         Len(At(vec, k))>>

\* Under the fairness of the steps of a call, the loop is left.
C9_Terminates ==
    (Distinct(input) /\ pc = "join_substrings") ~> build

\* The loop is through after a pass that could not resolve a string, since
\* the container of that string was not resolved yet: a chain of two links.
C9_Witness ==
    /\ Distinct(input)
    /\ build
    /\ \E k \in Ids(vec) :
          /\ IsSome(At(contained_in, k))
          /\ IsSome(At(contained_in, At(contained_in, k)[1]))
          /\ At(contained_in, k)[1] > k

\* C10: after find_substrings an id p has a link exactly when the string of
\* another id contains its string; the link is then (t, off), t the lowest
\* such id and off the leftmost occurrence of the string of p in the one of t;
\* and a link is never overwritten.
C10_FirstContainer ==
    /\ [](PhaseOneDone =>
             \A p \in Ids(vec) :
                 IF Containers(vec, p) = {}
                 THEN IsNone(At(contained_in, p))
                 ELSE LET t == Min(Containers(vec, p))
                      IN  At(contained_in, p) = <<t, Min(Occurrences(At(vec, t), At(vec, p)))>>)
    /\ [][\A k \in DOMAIN contained_in :
             IsSome(contained_in[k]) => contained_in'[k] = contained_in[k]]_vars

\* A string that two other strings contain, one of them twice, is linked.
C10_Witness ==
    /\ PhaseOneDone
    /\ \E p \in Ids(vec) :
          /\ Cardinality(Containers(vec, p)) >= 2
          /\ IsSome(At(contained_in, p))
          /\ Cardinality(Occurrences(At(vec, At(contained_in, p)[1]), At(vec, p))) >= 2
          /\ At(vec, p) # <<>>

\* C2: get(index) returns None, and does not fail, for every index >= len();
\* for an index < len() it returns the bytes [offset, offset + length) of the
\* storage string, for (offset, length) the span of the index.
C2_GetTotal ==
    ret.op = "get" =>
        IF ret.index >= SubStrLen(substr)
        THEN ret.tag = "None"
        ELSE /\ ret.tag = "Some"
             /\ ret.val = Bytes(substr.string, At(substr.spans, ret.index)[1],
                                At(substr.spans, ret.index)[1] + At(substr.spans, ret.index)[2])

\* C6: for a valid id and any maxLen, before and after return a slice of the
\* storage string that ends at the offset of the span, respectively starts at
\* its end, is at most maxLen bytes long, stays inside the storage string and
\* has both ends on character boundaries; for an id out of range, None.
C6_ContextWindows ==
    ret.op \in {"before", "after"} =>
        IF ret.index >= SubStrLen(substr)
        THEN ret.tag = "None"
        ELSE LET off == At(substr.spans, ret.index)[1]
                 end == off + At(substr.spans, ret.index)[2]
                 n == Len(ret.val)
             IN  /\ ret.tag = "Some"
                 /\ ret.len = USIZE_MAX \/ n <= ret.len
                 /\ IF ret.op = "before"
                    THEN /\ n <= off
                         /\ ret.val = Bytes(substr.string, off - n, off)
                         /\ IsCharBoundary(substr.string, off - n)
                         /\ IsCharBoundary(substr.string, off)
                    ELSE /\ end + n <= StorageLen(substr)
                         /\ ret.val = Bytes(substr.string, end, end + n)
                         /\ IsCharBoundary(substr.string, end)
                         /\ IsCharBoundary(substr.string, end + n)

====
